---- MODULE Spec2Model ----
(***************************************************************************)
(* Model of the meeting recorder backend: the transcription pipeline of    *)
(* speech_service.py (transcribe_audio, _transcribe_short_audio,           *)
(* _transcribe_long_audio, _get_audio_config, _process_response) and the   *)
(* create/delete endpoints of main.py with the persistence of crud.py.     *)
(*                                                                         *)
(* Text is a sequence of one-character strings, so that joining and        *)
(* stripping are computed and not assumed.  pydub and the recognition      *)
(* provider are external: what they return is drawn from small sets.       *)
(* The create endpoint is an async handler that calls the blocking         *)
(* pipeline directly, so one request is handled at a time.                 *)
(***************************************************************************)
EXTENDS Integers, Sequences, FiniteSets, TLC

VARIABLES
    speech_client,  \* module-level client: TRUE when initialised, FALSE when None
    uploads,        \* files present in the audio_uploads directory
    meetings,       \* rows of the meetings table
    nextUuid,       \* source of fresh uuid4 values
    nextId,         \* autoincrement primary key
    httpPc,         \* position of the request being handled by main.py
    response,       \* HTTP response to the last request, if answered
    pc,             \* position of the transcribe_audio run
    file_path,      \* argument of transcribe_audio (the saved upload)
    audio,          \* decoded AudioSegment of the upload: len (ms), frame_rate
    chunks,         \* list of chunks of the long path
    fallback,       \* TRUE when split_on_silence returned no chunk
    i,              \* loop index over chunks (1-based)
    transcripts,    \* list of per-chunk texts collected by the long path
    temp_dir,       \* "none", "exists" or "removed"
    calls,          \* recognition requests received by the provider, in order
    warnings,       \* chunk indexes for which the warning of the long path was printed
    result          \* what transcribe_audio returned or raised

vars == <<speech_client, uploads, meetings, nextUuid, nextId, httpPc, response,
          pc, file_path, audio, chunks, fallback, i, transcripts, temp_dir,
          calls, warnings, result>>

runVars == <<pc, file_path, audio, chunks, fallback, i, transcripts,
             temp_dir, calls, warnings, result>>

dbVars == <<uploads, meetings, nextUuid, nextId>>

----------------------------------------------------------------------------
(* Bounds of the model *)

MaxRequests == 1     \* create requests that save an upload
MaxChunks == 2       \* chunks returned by split_on_silence

(* Program constants *)

LongThresholdMs == 60000
FixedChunkMs == 55000
MinChunkMs == 250
MinSilenceLen == 500

(* Inputs *)

Extensions == {"wav", "MP3"}    \* extension of the uploaded file name
FrameRates == {8000, 44100}
Durations == {60000, 60001, 110100, 120000}
ChunkLens == {100, 300}                  \* lengths of chunks split on silence

----------------------------------------------------------------------------
(* Text *)

Space == " "
NoText == <<>>

RECURSIVE Join(_, _)
\* sep.join(ts)
Join(ts, sep) ==
    IF Len(ts) = 0 THEN NoText
    ELSE IF Len(ts) = 1 THEN ts[1]
    ELSE ts[1] \o sep \o Join(Tail(ts), sep)

RECURSIVE LStrip(_)
LStrip(t) == IF Len(t) > 0 /\ t[1] = Space THEN LStrip(Tail(t)) ELSE t

RECURSIVE RStrip(_)
RStrip(t) ==
    IF Len(t) > 0 /\ t[Len(t)] = Space THEN RStrip(SubSeq(t, 1, Len(t) - 1)) ELSE t

\* str.strip()
Strip(t) == RStrip(LStrip(t))

\* str.lower() on the extensions of the model
Lower(ext) == IF ext = "MP3" THEN "mp3" ELSE ext

----------------------------------------------------------------------------
(* Recognition requests: _get_audio_config and _process_response *)

\* os.path.splitext(file_path)[1].lower().strip('.')
FileExt(path) == Lower(path.ext)

\* encoding_map.get(file_ext, ENCODING_UNSPECIFIED)
EncodingOf(file_ext) ==
    CASE file_ext = "wav" -> "LINEAR16"
      [] file_ext = "flac" -> "FLAC"
      [] file_ext = "webm" -> "WEBM_OPUS"
      [] file_ext = "opus" -> "WEBM_OPUS"
      [] file_ext = "mp3" -> "MP3"
      [] file_ext = "m4a" -> "MP3"
      [] OTHER -> "ENCODING_UNSPECIFIED"

GetAudioConfig(path, sample_rate) ==
    [encoding |-> EncodingOf(FileExt(path)),
     sample_rate_hertz |-> sample_rate,
     language_code |-> "en-US"]

\* Responses of the provider: a list of results, each a list of alternatives
\* (texts).  Zero results, one result, and three results of which the second
\* has no alternative and the first has two.
A == <<"a">>
B == <<"b">>
C == <<"c">>
X == <<"x">>
Responses == { <<>>, << <<A>> >>, << <<B, X>>, <<>>, <<C>> >> }

RECURSIVE TopAlternatives(_)
\* [result.alternatives[0].transcript for result in response.results if result.alternatives]
TopAlternatives(results) ==
    IF Len(results) = 0 THEN <<>>
    ELSE IF Len(results[1]) > 0
         THEN <<results[1][1]>> \o TopAlternatives(Tail(results))
         ELSE TopAlternatives(Tail(results))

ProcessResponse(resp) == Strip(Join(TopAlternatives(resp), <<Space>>))

----------------------------------------------------------------------------
(* Errors *)

NoResult == [kind |-> "none", text |-> NoText, type |-> "", message |-> <<>>]

Returned(text) == [kind |-> "transcript", text |-> text, type |-> "", message |-> <<>>]

WrapUnwrapped(cause) ==
    [kind |-> "error", text |-> NoText, type |-> cause, message |-> <<cause>>]

\* raise SpeechServiceError(f"Transcription failed: {str(e)}")
Wrap(cause) ==
    [kind |-> "error", text |-> NoText, type |-> "SpeechServiceError",
     message |-> <<"Transcription failed: ", cause>>]

\* raise SpeechServiceError("Speech recognition service not available.")
Unavailable ==
    [kind |-> "error", text |-> NoText, type |-> "SpeechServiceError",
     message |-> <<"Speech recognition service not available.">>]

----------------------------------------------------------------------------
(* Chunks *)

NoAudio == [len |-> 0, frame_rate |-> 0]

RECURSIVE SlicesFromStep(_, _, _)
SlicesFromStep(len, from, step) ==
    IF from >= len THEN <<>>
    ELSE <<[start |-> from,
            len |-> IF from + step <= len THEN step ELSE len - from]>>
         \o SlicesFromStep(len, from + step, step)

FixedSlicesAtThreshold(len) == SlicesFromStep(len, 0, LongThresholdMs)

\* [audio[i:i + 55000] for i in range(0, len(audio), 55000)]
FixedSlices(len) == SlicesFromStep(len, 0, FixedChunkMs)

RECURSIVE PlaceFrom(_, _)
\* chunks of the given lengths laid out in time order, a silence apart
PlaceFrom(lens, from) ==
    IF Len(lens) = 0 THEN <<>>
    ELSE <<[start |-> from, len |-> lens[1]]>>
         \o PlaceFrom(Tail(lens), from + lens[1] + MinSilenceLen)

\* what split_on_silence may return: no chunk, or up to MaxChunks chunks
SplitResults ==
    { PlaceFrom(lens, 0) :
        lens \in UNION { [1..n -> ChunkLens] : n \in 0..MaxChunks } }

TooShortNever(chunk) == chunk.len < 0

\* if len(chunk) < 250: continue
TooShort(chunk) == chunk.len < MinChunkMs

ChunkFileFromUpload(idx) == file_path

\* os.path.join(temp_dir, f"chunk_{i}.wav")
ChunkFile(idx) == [dir |-> "tmp", name |-> idx, ext |-> "wav"]

\* actual_sample_rate = audio.frame_rate
ShortSampleRate == audio.frame_rate

\* the sample rate guessed from the extension instead of read from the audio
LongSampleRateGuessed == IF FileExt(file_path) = "wav" THEN 16000 ELSE 48000

\* sample_rate = audio.frame_rate
LongSampleRate == audio.frame_rate

\* a recognition request as the provider sees it, with its reply
Call(idx, path, sample_rate, ok, text) ==
    [chunk |-> idx, config |-> GetAudioConfig(path, sample_rate),
     ok |-> ok, text |-> text]

----------------------------------------------------------------------------
(* Initial state: the service has started, no request was made yet *)

\* no request has been answered yet
NoResponse == [op |-> "none", status |-> 0]

Init ==
    /\ speech_client \in BOOLEAN
    /\ uploads = {}
    /\ meetings = {}
    /\ nextUuid = 1
    /\ nextId = 1
    /\ httpPc = "idle"
    /\ response = NoResponse
    /\ pc = "None"
    /\ file_path = [dir |-> "none", name |-> 0, ext |-> ""]
    /\ audio = NoAudio
    /\ chunks = <<>>
    /\ fallback = FALSE
    /\ i = 0
    /\ transcripts = <<>>
    /\ temp_dir = "none"
    /\ calls = <<>>
    /\ warnings = {}
    /\ result = NoResult

----------------------------------------------------------------------------
(* transcribe_audio *)

Running == httpPc = "transcribing"

\* if not speech_client: raise SpeechServiceError(...)
ClientUnavailable ==
    /\ Running /\ pc = "Start"
    /\ ~speech_client
    /\ pc' = "Failed"
    /\ result' = Unavailable
    /\ UNCHANGED <<speech_client, dbVars, httpPc, response, file_path, audio,
                   chunks, fallback, i, transcripts, temp_dir, calls, warnings>>

\* audio = AudioSegment.from_file(file_path); branch on len(audio) > 60000
Load ==
    /\ Running /\ pc = "Start"
    /\ speech_client
    /\ \E len \in Durations, rate \in FrameRates :
        /\ audio' = [len |-> len, frame_rate |-> rate]
        /\ pc' = IF len > LongThresholdMs THEN "LongPath" ELSE "ShortPath"
    /\ UNCHANGED <<speech_client, dbVars, httpPc, response, file_path, chunks, fallback,
                   i, transcripts, temp_dir, calls, warnings, result>>

\* AudioSegment.from_file raises: the upload cannot be decoded
LoadFails ==
    /\ Running /\ pc = "Start"
    /\ speech_client
    /\ pc' = "Failed"
    /\ result' = Wrap("DecodeError")
    /\ UNCHANGED <<speech_client, dbVars, httpPc, response, file_path, audio,
                   chunks, fallback, i, transcripts, temp_dir, calls, warnings>>

\* _transcribe_short_audio(file_path, actual_sample_rate): the response arrives
ShortRecognize ==
    /\ Running /\ pc = "ShortPath"
    /\ \E resp \in Responses :
        LET text == ProcessResponse(resp) IN
        /\ calls' = Append(calls, Call(0, file_path, ShortSampleRate, TRUE, text))
        /\ result' = Returned(text)
    /\ pc' = "Done"
    /\ UNCHANGED <<speech_client, dbVars, httpPc, response, file_path, audio,
                   chunks, fallback, i, transcripts, temp_dir, warnings>>

\* speech_client.recognize raises on the short path
ShortProviderFails ==
    /\ Running /\ pc = "ShortPath"
    /\ calls' = Append(calls, Call(0, file_path, ShortSampleRate, FALSE, NoText))
    /\ pc' = "Failed"
    /\ result' = Wrap("ProviderError")
    /\ UNCHANGED <<speech_client, dbVars, httpPc, response, file_path, audio,
                   chunks, fallback, i, transcripts, temp_dir, warnings>>

\* the reload or the in-memory export of the short path raises before the call
ShortLocalFails ==
    /\ Running /\ pc = "ShortPath"
    /\ pc' = "Failed"
    /\ result' = Wrap("ExportError")
    /\ UNCHANGED <<speech_client, dbVars, httpPc, response, file_path, audio,
                   chunks, fallback, i, transcripts, temp_dir, calls, warnings>>

----------------------------------------------------------------------------
(* _transcribe_long_audio *)

\* split_on_silence, the fixed-length fallback, transcripts = [], mkdtemp
LongSplit ==
    /\ Running /\ pc = "LongPath"
    /\ \E split \in SplitResults :
        /\ fallback' = (split = <<>>)
        /\ chunks' = IF split = <<>> THEN FixedSlices(audio.len) ELSE split
    /\ transcripts' = <<>>
    /\ temp_dir' = "exists"
    /\ i' = 1
    /\ pc' = "Loop"
    /\ UNCHANGED <<speech_client, dbVars, httpPc, response, file_path, audio,
                   calls, warnings, result>>

InLoop == Running /\ pc = "Loop" /\ i <= Len(chunks)

\* if len(chunk) < 250: continue
ChunkSkip ==
    /\ InLoop
    /\ TooShort(chunks[i])
    /\ i' = i + 1
    /\ UNCHANGED <<speech_client, dbVars, httpPc, response, pc, file_path, audio,
                   chunks, fallback, transcripts, temp_dir, calls, warnings, result>>

\* chunk.export raises, outside the inner try: finally rmtree, then the
\* exception leaves _transcribe_long_audio and is wrapped by transcribe_audio
ChunkExportFailsNoCleanup ==
    /\ InLoop
    /\ ~TooShort(chunks[i])
    /\ pc' = "Failed"
    /\ result' = Wrap("ExportError")
    /\ UNCHANGED <<speech_client, dbVars, httpPc, response, file_path, audio,
                   chunks, fallback, i, transcripts, temp_dir, calls, warnings>>

ChunkExportFails ==
    /\ InLoop
    /\ ~TooShort(chunks[i])
    /\ temp_dir' = "removed"
    /\ pc' = "Failed"
    /\ result' = Wrap("ExportError")
    /\ UNCHANGED <<speech_client, dbVars, httpPc, response, file_path, audio,
                   chunks, fallback, i, transcripts, calls, warnings>>

\* the chunk is exported and recognized: transcripts.append(...)
ChunkRecognize ==
    /\ InLoop
    /\ ~TooShort(chunks[i])
    /\ \E resp \in Responses :
        LET text == ProcessResponse(resp) IN
        /\ calls' = Append(calls, Call(i, ChunkFile(i), LongSampleRate, TRUE, text))
        /\ transcripts' = Append(transcripts, text)
    /\ i' = i + 1
    /\ UNCHANGED <<speech_client, dbVars, httpPc, response, pc, file_path, audio,
                   chunks, fallback, temp_dir, warnings, result>>

\* a recognition failure that ends the run instead of being swallowed
ChunkProviderFailsAborts ==
    /\ InLoop
    /\ ~TooShort(chunks[i])
    /\ calls' = Append(calls, Call(i, ChunkFile(i), LongSampleRate, FALSE, NoText))
    /\ temp_dir' = "removed"
    /\ pc' = "Failed"
    /\ result' = Wrap("ProviderError")
    /\ UNCHANGED <<speech_client, dbVars, httpPc, response, file_path, audio,
                   chunks, fallback, i, transcripts, warnings>>

\* speech_client.recognize raises for the chunk: except Exception, warn, continue
ChunkProviderFails ==
    /\ InLoop
    /\ ~TooShort(chunks[i])
    /\ calls' = Append(calls, Call(i, ChunkFile(i), LongSampleRate, FALSE, NoText))
    /\ warnings' = warnings \cup {i}
    /\ i' = i + 1
    /\ UNCHANGED <<speech_client, dbVars, httpPc, response, pc, file_path, audio,
                   chunks, fallback, transcripts, temp_dir, result>>

\* _transcribe_short_audio raises for the chunk before the call (reload or
\* export of the chunk file): except Exception, warn, continue
ChunkLocalFails ==
    /\ InLoop
    /\ ~TooShort(chunks[i])
    /\ warnings' = warnings \cup {i}
    /\ i' = i + 1
    /\ UNCHANGED <<speech_client, dbVars, httpPc, response, pc, file_path, audio,
                   chunks, fallback, transcripts, temp_dir, calls, result>>

\* the loop is over: finally rmtree; return " ".join(transcripts).strip()
LongFinish ==
    /\ Running /\ pc = "Loop" /\ i > Len(chunks)
    /\ temp_dir' = "removed"
    /\ result' = Returned(Strip(Join(transcripts, <<Space>>)))
    /\ pc' = "Done"
    /\ UNCHANGED <<speech_client, dbVars, httpPc, response, file_path, audio,
                   chunks, fallback, i, transcripts, calls, warnings>>

----------------------------------------------------------------------------
(* main.py and crud.py *)

Idle == httpPc = "idle"

\* if not title.strip() or duration <= 0: raise HTTPException(400)
CreateInvalid ==
    /\ Idle
    /\ response' = [op |-> "create", status |-> 400]
    /\ UNCHANGED <<speech_client, dbVars, httpPc, runVars>>

\* the upload is saved under a fresh uuid4 name with the lower-cased extension
\* of the uploaded file name, and transcribe_audio(file_path) is entered
CreateSave ==
    /\ Idle
    /\ nextUuid <= MaxRequests
    /\ \E ext \in Extensions :
        file_path' = [dir |-> "audio_uploads", name |-> nextUuid, ext |-> Lower(ext)]
    /\ uploads' = uploads \cup {file_path'}
    /\ nextUuid' = nextUuid + 1
    /\ httpPc' = "transcribing"
    /\ pc' = "Start"
    /\ audio' = NoAudio
    /\ chunks' = <<>>
    /\ fallback' = FALSE
    /\ i' = 0
    /\ transcripts' = <<>>
    /\ temp_dir' = "none"
    /\ calls' = <<>>
    /\ warnings' = {}
    /\ result' = NoResult
    /\ response' = NoResponse
    /\ UNCHANGED <<speech_client, meetings, nextId>>

\* a rejection that leaves the upload in place
CreateRejectKeepsFile ==
    /\ Running /\ pc = "Failed"
    /\ result.type = "SpeechServiceError"
    /\ response' = [op |-> "create", status |-> 502]
    /\ httpPc' = "idle"
    /\ UNCHANGED <<speech_client, dbVars, runVars>>

\* except SpeechServiceError: os.remove(file_path); raise HTTPException(502)
CreateReject ==
    /\ Running /\ pc = "Failed"
    /\ result.type = "SpeechServiceError"
    /\ uploads' = uploads \ {file_path}
    /\ response' = [op |-> "create", status |-> 502]
    /\ httpPc' = "idle"
    /\ UNCHANGED <<speech_client, meetings, nextUuid, nextId, runVars>>

\* crud.create_meeting(db, ..., transcript=transcript, file_path=file_path)
CreateStore ==
    /\ Running /\ pc = "Done"
    /\ meetings' = meetings \cup
         {[id |-> nextId, transcript |-> result.text, audio_path |-> file_path]}
    /\ nextId' = nextId + 1
    /\ response' = [op |-> "create", status |-> 201]
    /\ httpPc' = "idle"
    /\ UNCHANGED <<speech_client, uploads, nextUuid, runVars>>

MeetingIds == 1..MaxRequests

\* crud.get_meeting
GetMeeting(meeting_id) == {m \in meetings : m.id = meeting_id}

\* crud.delete_meeting: the audio file is removed if present, then the row
DeleteMeeting ==
    /\ Idle
    /\ \E meeting_id \in MeetingIds :
        /\ GetMeeting(meeting_id) # {}
        /\ LET db_meeting == CHOOSE m \in GetMeeting(meeting_id) : TRUE IN
            /\ uploads' = uploads \ {db_meeting.audio_path}
            /\ meetings' = meetings \ {db_meeting}
    /\ response' = [op |-> "delete", status |-> 204]
    /\ UNCHANGED <<speech_client, nextUuid, nextId, httpPc, runVars>>

\* crud.delete_meeting returns None: 404
DeleteMissing ==
    /\ Idle
    /\ \E meeting_id \in MeetingIds : GetMeeting(meeting_id) = {}
    /\ response' = [op |-> "delete", status |-> 404]
    /\ UNCHANGED <<speech_client, dbVars, httpPc, runVars>>

----------------------------------------------------------------------------
(* Storage faults: a step of a request handler raises *)

\* open() or shutil.copyfileobj raises: HTTPException(500); the file that
\* open() created stays when the copy is what failed
SaveFails ==
    /\ Idle
    /\ nextUuid <= MaxRequests
    /\ \E ext \in Extensions, created \in BOOLEAN :
        uploads' = IF created
                   THEN uploads \cup {[dir |-> "audio_uploads", name |-> nextUuid,
                                       ext |-> Lower(ext)]}
                   ELSE uploads
    /\ nextUuid' = nextUuid + 1
    /\ response' = [op |-> "create", status |-> 500]
    /\ UNCHANGED <<speech_client, meetings, nextId, httpPc, runVars>>

\* os.remove(file_path) raises in the except block of the create endpoint
RemoveFails ==
    /\ Running /\ pc = "Failed"
    /\ result.type = "SpeechServiceError"
    /\ response' = [op |-> "create", status |-> 500]
    /\ httpPc' = "idle"
    /\ UNCHANGED <<speech_client, dbVars, runVars>>

\* db.commit() raises in crud.create_meeting
InsertFails ==
    /\ Running /\ pc = "Done"
    /\ response' = [op |-> "create", status |-> 500]
    /\ httpPc' = "idle"
    /\ UNCHANGED <<speech_client, dbVars, runVars>>

\* db.commit() raises in crud.delete_meeting, after the file was removed
DeleteCommitFails ==
    /\ Idle
    /\ \E meeting_id \in MeetingIds :
        /\ GetMeeting(meeting_id) # {}
        /\ LET db_meeting == CHOOSE m \in GetMeeting(meeting_id) : TRUE IN
            uploads' = uploads \ {db_meeting.audio_path}
    /\ response' = [op |-> "delete", status |-> 500]
    /\ UNCHANGED <<speech_client, meetings, nextUuid, nextId, httpPc, runVars>>

----------------------------------------------------------------------------
(* Specifications *)

Next ==
    \/ CreateInvalid
    \/ CreateSave
    \/ ClientUnavailable
    \/ Load
    \/ LoadFails
    \/ ShortRecognize
    \/ ShortProviderFails
    \/ ShortLocalFails
    \/ LongSplit
    \/ ChunkSkip
    \/ ChunkExportFails
    \/ ChunkRecognize
    \/ ChunkProviderFails
    \/ ChunkLocalFails
    \/ LongFinish
    \/ CreateReject
    \/ CreateStore
    \/ DeleteMeeting
    \/ DeleteMissing

Spec == Init /\ [][Next]_vars

NextFaults ==
    \/ Next
    \/ SaveFails
    \/ RemoveFails
    \/ InsertFails
    \/ DeleteCommitFails

SpecFaults == Init /\ [][NextFaults]_vars

----------------------------------------------------------------------------
(* Vocabulary of the properties *)

Loaded == audio.len > 0
ShortRun == Loaded /\ audio.len <= LongThresholdMs
LongRun == Loaded /\ audio.len > LongThresholdMs

IsOk(call) == call.ok
IsNonEmpty(text) == text # NoText

Texts(cs) == [k \in 1..Len(cs) |-> cs[k].text]

\* the texts of the recognitions that succeeded, in the order of the requests
OkTexts == Texts(SelectSeq(calls, IsOk))

CalledIdx == {calls[k].chunk : k \in 1..Len(calls)}

\* chunks whose transcription raised before the provider was called
LocalFailIdx == warnings \ CalledIdx

PlannedIdx == {k \in 1..Len(chunks) : chunks[k].len >= MinChunkMs}

Cause == result.message[Len(result.message)]

OriginalEncoding == EncodingOf(FileExt(file_path))

CreateAnswered == Idle /\ response.op = "create" /\ response.status # 400

StoredFor(path) == {m \in meetings : m.audio_path = path}

----------------------------------------------------------------------------
(* Properties *)

\* C1: on the long path a recognition failure of a chunk never ends the run
\* in failure, and a run that returns, returns the stripped single-space join
\* of the texts of the chunks whose recognition succeeded, in chunk order;
\* when every recognition failed the result is the empty string.
C1_ChunkFailureNeverAborts ==
    LongRun =>
        /\ (pc = "Failed" => Cause # "ProviderError")
        /\ (pc = "Done" =>
              /\ result.kind = "transcript"
              /\ result.text = Strip(Join(OkTexts, <<Space>>))
              /\ ((\A k \in 1..Len(calls) : ~calls[k].ok) => result.text = NoText))
        /\ \A k \in 1..Len(calls) : k > 1 => calls[k - 1].chunk < calls[k].chunk

C1_Witness ==
    /\ LongRun /\ pc = "Done"
    /\ \E k \in 1..Len(calls) : ~calls[k].ok
    /\ \E k \in 1..Len(calls) : calls[k].ok /\ calls[k].text # NoText
    /\ result.text # NoText

\* C2: once a long-path run has ended, returning or raising, its temporary
\* directory is gone: the directory exists only while the chunk loop runs.
C2_TempDirRemoved ==
    /\ temp_dir = "exists" => (Running /\ pc = "Loop")
    /\ (pc \in {"Done", "Failed"} /\ Len(chunks) > 0) => temp_dir = "removed"

C2_Witness == pc = "Failed" /\ temp_dir = "removed" /\ Len(calls) > 0

\* C3 as stated: a run of at most 60,000 ms makes exactly one recognition
\* call; a run above 60,000 ms makes at least one call, one per planned chunk
\* (read for runs in which no local step raised).
C3_Original ==
    /\ (ShortRun /\ pc = "Done") => Len(calls) = 1
    /\ (LongRun /\ pc = "Done" /\ LocalFailIdx = {}) =>
          /\ Len(calls) >= 1
          /\ Len(calls) = Cardinality(PlannedIdx)

\* C3 amended: a short run makes at most one call and exactly one when it
\* returns; a long run makes one call for each chunk of at least 250 ms whose
\* local reload and export succeeded, no call for any other chunk, and so
\* possibly no call at all.
C3_CallsPerRun ==
    /\ ShortRun =>
          /\ Len(calls) <= 1
          /\ (pc = "Done" => Len(calls) = 1)
          /\ CalledIdx \subseteq {0}
    /\ LongRun =>
          /\ Cardinality(CalledIdx) = Len(calls)
          /\ CalledIdx \cup warnings \subseteq PlannedIdx
          /\ (pc = "Done" =>
                Len(calls) = Cardinality(PlannedIdx) - Cardinality(LocalFailIdx))
    /\ ~Loaded => Len(calls) = 0

C3_Witness ==
    /\ LongRun /\ pc = "Done"
    /\ Len(chunks) > 0 /\ PlannedIdx = {} /\ Len(calls) = 0
    /\ result.text = NoText

\* C4: a run that fails leaves transcribe_audio as SpeechServiceError, whose
\* message carries the text of the cause: a decode failure, a provider
\* failure of the short path, a local error of either path.
C4_FailuresAreWrapped ==
    /\ pc = "Failed" =>
          /\ result.kind = "error"
          /\ result.type = "SpeechServiceError"
          /\ speech_client =>
                /\ Len(result.message) = 2
                /\ Cause = (IF ~Loaded THEN "DecodeError"
                            ELSE IF ShortRun /\ Len(calls) = 1 THEN "ProviderError"
                            ELSE "ExportError")
    /\ (ShortRun /\ \E k \in 1..Len(calls) : ~calls[k].ok) => pc = "Failed"
    /\ pc = "Done" => result.kind = "transcript"

C4_Witness ==
    /\ pc = "Failed" /\ ShortRun /\ Len(calls) = 1
    /\ result.message = <<"Transcription failed: ", "ProviderError">>

\* C5 as stated: every recognition request of a run carries the encoding
\* derived from the extension of the uploaded file.
C5_Original ==
    \A k \in 1..Len(calls) : calls[k].config.encoding = OriginalEncoding

\* C5 amended: the request of the short path carries the encoding derived
\* from the extension of the uploaded file; each chunk request of the long
\* path carries the one derived from the name of the exported chunk file,
\* chunk_<i>.wav, that is LINEAR16 whatever was uploaded.
C5_EncodingPerPath ==
    \A k \in 1..Len(calls) :
        /\ calls[k].chunk = 0 => calls[k].config.encoding = OriginalEncoding
        /\ calls[k].chunk > 0 => calls[k].config.encoding = "LINEAR16"

C5_Witness ==
    /\ OriginalEncoding = "MP3"
    /\ \E k \in 1..Len(calls) :
          calls[k].chunk > 0 /\ calls[k].config.encoding = "LINEAR16"

\* C6: the transcript of the long path is the stripped single-space join of
\* the non-empty chunk texts only, so that exactly one space separates
\* consecutive non-empty texts.
C6_JoinOfNonEmptyTexts ==
    (LongRun /\ pc = "Done") =>
        result.text = Strip(Join(SelectSeq(OkTexts, IsNonEmpty), <<Space>>))

\* C7: every recognition request carries the frame rate of the audio decoded
\* from the upload.
C7_SampleRatePropagated ==
    \A k \in 1..Len(calls) :
        /\ Loaded
        /\ calls[k].config.sample_rate_hertz = audio.frame_rate

C7_Witness ==
    /\ audio.frame_rate = 8000
    /\ FileExt(file_path) = "wav"
    /\ \E k \in 1..Len(calls) : calls[k].chunk > 1

C9_Original ==
    (LongRun /\ fallback /\ pc = "Done") =>
        /\ Len(chunks) = (audio.len + FixedChunkMs - 1) \div FixedChunkMs
        /\ CalledIdx \cup warnings = 1..Len(chunks)

\* C9 amended: the fallback list has ceil(len / 55000) slices cut at
\* consecutive 55,000 ms boundaries, only the last possibly shorter; the run
\* transcribes those of at least 250 ms, so a last slice under 250 ms is
\* skipped.
C9_FallbackPlan ==
    (LongRun /\ fallback) =>
        /\ Len(chunks) = (audio.len + FixedChunkMs - 1) \div FixedChunkMs
        /\ \A k \in 1..Len(chunks) :
              /\ chunks[k].start = (k - 1) * FixedChunkMs
              /\ chunks[k].len =
                    IF k < Len(chunks) THEN FixedChunkMs
                    ELSE audio.len - chunks[k].start
              /\ chunks[k].len >= 1 /\ chunks[k].len <= FixedChunkMs
        /\ CalledIdx \cup warnings \subseteq PlannedIdx
        /\ (pc = "Done" => CalledIdx \cup warnings = PlannedIdx)
        /\ PlannedIdx \in {1..Len(chunks), 1..(Len(chunks) - 1)}

C9_Witness ==
    /\ LongRun /\ fallback /\ pc = "Done"
    /\ Len(chunks) = 3
    /\ CalledIdx \cup warnings = {1, 2}

\* C10: whenever no request is in flight, every file of the upload directory
\* is the audio_path of a stored meeting.
C10_NoOrphanedUpload ==
    Idle => \A f \in uploads : StoredFor(f) # {}

====
